---- MODULE Spec2Model ----
(***************************************************************************)
(* The evaluator of src/pdl/pdl_interpreter.py as a state machine.         *)
(*                                                                         *)
(* The interpreter is a set of mutually recursive Python functions.  The   *)
(* model runs them on an explicit call stack: `ctl` is what the            *)
(* interpreter is doing now (calling a function, returning a value,        *)
(* running the loop of the top frame, propagating an exception) and        *)
(* `stack` holds one frame per active Python call that still has work to   *)
(* do after its callee returns, with the local variables of that call.     *)
(*                                                                         *)
(* Text is a sequence of one-character strings; a value is a tagged        *)
(* record (None, str, int, dict, closure); a scope is a function from      *)
(* names to values; a block is a record with the fields of pdl_ast.        *)
(***************************************************************************)
EXTENDS Integers, Sequences, FiniteSets, TLC

VARIABLES
    prog,       \* the program generate() loaded (prog.root)
    env,        \* which of GENAI_API / GENAI_KEY the environment defines
    ctl,        \* the interpreter's control state
    stack,      \* the frames of the active calls, bottom first
    log,        \* the transcript list `log` of generate()
    logfile,    \* what generate() wrote to the log file
    rendered    \* the trace generate() handed to the renderer

vars == <<prog, env, ctl, stack, log, logfile, rendered>>

----------------------------------------------------------------------------
(* Bounds of the model *)

\* largest count n of a Repeats block
MaxRepeats == 2
\* iterations after which a RepeatsUntil loop is no longer followed
MaxIter == 3
\* nesting of Call frames after which a recursion is no longer followed
MaxCalls == 2

----------------------------------------------------------------------------
(* Values *)

None == [t |-> "none"]
StrV(s) == [t |-> "str", v |-> s]
IntV(n) == [t |-> "int", v |-> n]
\* a dict, as the sequence of its (key, value) items in insertion order
DictV(items) == [t |-> "dict", items |-> items]
BoolV(b) == [t |-> "bool", v |-> b]

IsStr(v) == v.t = "str"

\* no assign / no input / no filename / no message
NONE == "None"

Digits == <<"0", "1", "2", "3", "4", "5", "6", "7", "8", "9">>

RECURSIVE Concat(_)
\* "".join(ss)
Concat(ss) == IF ss = <<>> THEN <<>> ELSE Head(ss) \o Concat(Tail(ss))

\* s.endswith(suffix)
EndsWith(s, suffix) ==
    /\ Len(suffix) <= Len(s)
    /\ SubSeq(s, Len(s) - Len(suffix) + 1, Len(s)) = suffix

\* sub in s
Contains(sub, s) ==
    \E i \in 0..(Len(s) - Len(sub)) : SubSeq(s, i + 1, i + Len(sub)) = sub

RECURSIVE Dumps(_)
RECURSIVE DumpsItems(_)
\* json.dumps(v); raises TypeError on a closure (ok = FALSE)
Dumps(v) ==
    CASE v.t = "none" -> [ok |-> TRUE, s |-> <<"n", "u", "l", "l">>]
      [] v.t = "str" -> [ok |-> TRUE, s |-> <<"\"">> \o v.v \o <<"\"">>]
      [] v.t = "int" -> [ok |-> TRUE, s |-> <<Digits[v.v + 1]>>]
      [] v.t = "bool" ->
            [ok |-> TRUE,
             s |-> IF v.v THEN <<"t", "r", "u", "e">>
                          ELSE <<"f", "a", "l", "s", "e">>]
      [] v.t = "dict" ->
            LET r == DumpsItems(v.items)
            IN  [ok |-> r.ok, s |-> <<"{">> \o r.s \o <<"}">>]
      [] OTHER -> [ok |-> FALSE, s |-> <<>>]

DumpsItems(items) ==
    IF items = <<>> THEN [ok |-> TRUE, s |-> <<>>]
    ELSE LET k == Head(items)[1]
             d == Dumps(Head(items)[2])
             r == DumpsItems(Tail(items))
         IN  [ok |-> d.ok /\ r.ok,
              s |-> <<"\"", k, "\"", ":", " ">> \o d.s
                    \o (IF Tail(items) = <<>> THEN <<>> ELSE <<",", " ">>)
                    \o r.s]

\* output = result if isinstance(result, str) else json.dumps(result)
OutputOf(result) ==
    IF IsStr(result) THEN [ok |-> TRUE, s |-> result.v] ELSE Dumps(result)

----------------------------------------------------------------------------
(* Scopes *)

\* scope | {name: v}
Bind(scope, name, v) ==
    [n \in DOMAIN scope \cup {name} |-> IF n = name THEN v ELSE scope[n]]

\* scope | other
Overlay(scope, other) ==
    [n \in DOMAIN scope \cup DOMAIN other |->
        IF n \in DOMAIN other THEN other[n] ELSE scope[n]]

\* scope | {"context": text}
SetContext(scope, text) == Bind(scope, "context", StrV(text))

empty_scope == [n \in {"context"} |-> StrV(<<>>)]

\* The scope a closure captured.  Python ties the knot in place
\* (closure.scope = scope | {name: closure}); here the closure keeps the
\* captured scope without its own name and the self-binding is put back
\* whenever the captured scope is read.
ClosureOf(block, scope) ==
    [t |-> "closure",
     block |-> block,
     scope |-> [n \in DOMAIN scope \ {block.function} |-> scope[n]]]

\* a closure whose captured scope lacks the closure itself
ClosureScopeNoSelf(closure) == closure.scope

\* lines 195-196: closure.scope, the captured scope with the self-binding
ClosureScope(closure) == Bind(closure.scope, closure.block.function, closure)

\* res[v] for one path segment of get_var
Index(res, seg) ==
    IF res.t = "dict" /\ \E i \in DOMAIN res.items : res.items[i][1] = seg
    THEN [ok |-> TRUE,
          v |-> res.items[CHOOSE i \in DOMAIN res.items :
                              res.items[i][1] = seg][2]]
    ELSE [ok |-> FALSE, v |-> None]

RECURSIVE IndexAll(_, _)
IndexAll(res, segs) ==
    IF segs = <<>> THEN [ok |-> TRUE, v |-> res]
    ELSE LET r == Index(res, Head(segs))
         IN  IF r.ok THEN IndexAll(r.v, Tail(segs)) ELSE r

\* get_var(var, scope) with var already split at the dots into segs;
\* ok = FALSE is the KeyError / TypeError of an absent segment
get_var(segs, scope) ==
    IF Head(segs) \in DOMAIN scope
    THEN IndexAll(scope[Head(segs)], Tail(segs))
    ELSE [ok |-> FALSE, v |-> None]

----------------------------------------------------------------------------
(* Blocks, prompts and conditions (pdl_ast) *)

\* the fields every block has
Base == [defs |-> <<>>, assign |-> NONE, show_result |-> TRUE, result |-> None]

\* block.model_copy(update=upd)
model_copy(block, upd) == upd @@ block

\* a literal text prompt
Text(s) == [kind |-> "text", text |-> s]

IsText(prompt) == prompt.kind = "text"

\* "no prompt": the None of ModelBlock.input
NoPrompt == [kind |-> "none"]

ModelBlock(input) == [kind |-> "model", input |-> input] @@ Base
CodeBlock(lan, code) == [kind |-> "code", lan |-> lan, code |-> code] @@ Base
GetBlock(segs) == [kind |-> "get", get |-> segs] @@ Base
ValueBlock(v) == [kind |-> "value", value |-> v] @@ Base
ApiBlock(url, input) == [kind |-> "api", url |-> url, input |-> input] @@ Base
SequenceBlock(prompts) == [kind |-> "sequence", prompts |-> prompts] @@ Base
IfBlock(condition, prompts) ==
    [kind |-> "if", condition |-> condition, prompts |-> prompts] @@ Base
RepeatsBlock(n, prompts) ==
    [kind |-> "repeats", repeats |-> n, prompts |-> prompts, trace |-> <<>>]
    @@ Base
RepeatsUntilBlock(cond, prompts) ==
    [kind |-> "repeats_until", repeats_until |-> cond, prompts |-> prompts,
     trace |-> <<>>] @@ Base
InputBlock(filename, stdin, json_content) ==
    [kind |-> "input", filename |-> filename, stdin |-> stdin,
     message |-> NONE, multiline |-> FALSE, json_content |-> json_content]
    @@ Base
FunctionBlock(name, body) ==
    [kind |-> "function", function |-> name, body |-> body, scope |-> NONE]
    @@ Base
CallBlock(segs, args) ==
    [kind |-> "call", call |-> segs, args |-> args, trace |-> NoPrompt] @@ Base
ErrorBlock(msg, block) == [kind |-> "error", msg |-> msg, block |-> block] @@ Base

EndsWithCondition(arg0, arg1) ==
    [kind |-> "ends_with", result |-> NONE,
     ends_with |-> [arg0 |-> arg0, arg1 |-> arg1]]
ContainsCondition(arg0, arg1) ==
    [kind |-> "contains", result |-> NONE,
     contains |-> [arg0 |-> arg0, arg1 |-> arg1]]
\* a condition of a kind process_condition does not match
OtherCondition == [kind |-> "other", result |-> NONE]

\* block with some of its fields set
With(block, upd) == upd @@ block

----------------------------------------------------------------------------
(* The call stack *)

Top == stack[Len(stack)]
Pop == SubSeq(stack, 1, Len(stack) - 1)
Push(frame) == Append(stack, frame)
\* the top frame with some of its locals assigned
Set(upd) == Append(Pop, upd @@ Top)

\* the top frame is a call of fn stopped at pc
At(fn, pc) == stack # <<>> /\ Top.fn = fn /\ Top.pc = pc

Calling(fn) == ctl.op = "call" /\ ctl.fn = fn
Returned == ctl.op = "ret"
Running == ctl.op = "run"

CallOp(fn, scope, arg) == [op |-> "call", fn |-> fn, scope |-> scope, arg |-> arg]
RetOp(val) == [op |-> "ret", val |-> val]
RunOp == [op |-> "run"]
RaiseOp(exc) == [op |-> "raise", exc |-> exc]

\* the tuple (result, output, scope, trace) most functions return
Ret4(result, output, scope, trace) ==
    [result |-> result, output |-> output, scope |-> scope, trace |-> trace]

\* append_log(log, title, somestring): two lines appended
append_log(l, title, text) ==
    Append(Append(l, <<"title", title>>), <<"text", text>>)

----------------------------------------------------------------------------
(* process_block *)

\* lines 102-104: bind the result under the assign name
AssignResult(scope, block, result) ==
    IF block.assign # NONE THEN Bind(scope, block.assign, result) ELSE scope

\* a trace node that keeps the result field its body left
BlockTraceBodyResult(trace, defs_trace, output) ==
    model_copy(trace, [defs |-> defs_trace])

\* line 106: the trace node takes the defs traces and the output
BlockTrace(trace, defs_trace, output) ==
    model_copy(trace, [defs |-> defs_trace, result |-> StrV(output)])

\* a process_block that ignores show_result
ShownOutputAlways(block, output) == output

\* lines 107-108: the output handed to the caller
ShownOutput(block, output) ==
    IF block.show_result = FALSE THEN <<>> ELSE output

\* a process_block that returns the context its body left
BlockReturnBodyContext(block, defs_trace, r) ==
    Ret4(r.result, ShownOutput(block, r.output),
         AssignResult(r.scope, block, r.result),
         BlockTrace(r.trace, defs_trace, r.output))

\* lines 102-110, on the tuple r the body returned
BlockReturn(block, defs_trace, r) ==
    LET scope1 == AssignResult(r.scope, block, r.result)
        trace == BlockTrace(r.trace, defs_trace, r.output)
        output == ShownOutput(block, r.output)
    IN  Ret4(r.result, output, SetContext(scope1, output), trace)

\* lines 97-101: the defs first, or straight to the body
ProcessBlock ==
    /\ Calling("process_block")
    /\ LET block == ctl.arg
           frame == [fn |-> "process_block", block |-> block,
                     scope0 |-> ctl.scope, defs_trace |-> block.defs]
       IN  IF Len(block.defs) > 0
           THEN /\ stack' = Push([pc |-> "defs"] @@ frame)
                /\ ctl' = CallOp("process_defs", ctl.scope, block.defs)
           ELSE /\ stack' = Push([pc |-> "body"] @@ frame)
                /\ ctl' = CallOp("process_block_body", ctl.scope, block)
    /\ UNCHANGED <<prog, env, log, logfile, rendered>>

\* lines 98, 101: process_defs returned
ProcessBlockDefs ==
    /\ At("process_block", "defs") /\ Returned
    /\ stack' = Set([pc |-> "body", defs_trace |-> ctl.val.trace])
    /\ ctl' = CallOp("process_block_body", ctl.val.scope, Top.block)
    /\ UNCHANGED <<prog, env, log, logfile, rendered>>

\* lines 101-110: process_block_body returned
ProcessBlockReturn ==
    /\ At("process_block", "body") /\ Returned
    /\ stack' = Pop
    /\ ctl' = RetOp(BlockReturn(Top.block, Top.defs_trace, ctl.val))
    /\ UNCHANGED <<prog, env, log, logfile, rendered>>

----------------------------------------------------------------------------
(* process_defs *)

ProcessDefs ==
    /\ Calling("process_defs")
    /\ stack' = Push([fn |-> "process_defs", pc |-> "for", defs |-> ctl.arg,
                      i |-> 1, scope |-> ctl.scope, defs_trace |-> <<>>])
    /\ ctl' = RunOp
    /\ UNCHANGED <<prog, env, log, logfile, rendered>>

\* line 215-216, 218: the next def, or the return
ProcessDefsNext ==
    /\ At("process_defs", "for") /\ Running
    /\ IF Top.i <= Len(Top.defs)
       THEN /\ ctl' = CallOp("process_block", Top.scope, Top.defs[Top.i])
            /\ stack' = stack
       ELSE /\ ctl' = RetOp([scope |-> Top.scope, trace |-> Top.defs_trace])
            /\ stack' = Pop
    /\ UNCHANGED <<prog, env, log, logfile, rendered>>

\* a process_defs that evaluates every def in the scope it was entered with
DefScopeDropped(scope, returned) == scope

\* line 216: _, _, scope, b_trace = process_block(...): the scope of the
\* next def (and of the body) is the one the def returned
DefScope(scope, returned) == returned

\* lines 216-217: a def returned
ProcessDefsReturn ==
    /\ At("process_defs", "for") /\ Returned
    /\ stack' = Set([i |-> Top.i + 1,
                     scope |-> DefScope(Top.scope, ctl.val.scope),
                     defs_trace |-> Append(Top.defs_trace, ctl.val.trace)])
    /\ ctl' = RunOp
    /\ UNCHANGED <<prog, env, log, logfile, rendered>>

----------------------------------------------------------------------------
(* process_prompts and process_prompt *)

\* a process_prompts that forgets the outputs so far
PromptContextStale(context_init, output) == context_init.v

\* line 229: the context a prompt starts with (context_init + output)
PromptContext(context_init, output) == context_init.v \o output

\* an accumulation that keeps only the last output
AccumulateLast(output, o) == o

\* line 231: output += o
Accumulate(output, o) == output \o o

ProcessPrompts ==
    /\ Calling("process_prompts")
    /\ stack' = Push([fn |-> "process_prompts", pc |-> "for",
                      prompts |-> ctl.arg, i |-> 1, result |-> None,
                      output |-> <<>>, trace |-> <<>>,
                      context_init |-> ctl.scope["context"],
                      scope |-> ctl.scope])
    /\ ctl' = RunOp
    /\ UNCHANGED <<prog, env, log, logfile, rendered>>

\* lines 228-230, 233: the next prompt, or the return
ProcessPromptsNext ==
    /\ At("process_prompts", "for") /\ Running
    /\ IF Top.i <= Len(Top.prompts)
       THEN /\ ctl' = IF IsStr(Top.context_init)
                       THEN CallOp("process_prompt",
                                   SetContext(Top.scope,
                                              PromptContext(Top.context_init,
                                                            Top.output)),
                                   Top.prompts[Top.i])
                       ELSE RaiseOp("TypeError")
            /\ stack' = stack
       ELSE /\ ctl' = RetOp(Ret4(Top.result, Top.output, Top.scope, Top.trace))
            /\ stack' = Pop
    /\ UNCHANGED <<prog, env, log, logfile, rendered>>

\* lines 230-232: a prompt returned
ProcessPromptsReturn ==
    /\ At("process_prompts", "for") /\ Returned
    /\ stack' = Set([i |-> Top.i + 1, result |-> ctl.val.result,
                     output |-> Accumulate(Top.output, ctl.val.output),
                     scope |-> ctl.val.scope,
                     trace |-> Append(Top.trace, ctl.val.trace)])
    /\ ctl' = RunOp
    /\ UNCHANGED <<prog, env, log, logfile, rendered>>

\* lines 240-244: a literal prompt
ProcessPromptText ==
    /\ Calling("process_prompt") /\ IsText(ctl.arg)
    /\ ctl' = RetOp(Ret4(StrV(ctl.arg.text), ctl.arg.text, ctl.scope, ctl.arg))
    /\ log' = append_log(log, "Prompt", ctl.arg.text)
    /\ UNCHANGED <<prog, env, stack, logfile, rendered>>

\* lines 245-246: a block prompt; process_prompt returns what process_block does
ProcessPromptBlock ==
    /\ Calling("process_prompt") /\ ~IsText(ctl.arg)
    /\ ctl' = CallOp("process_block", ctl.scope, ctl.arg)
    /\ UNCHANGED <<prog, env, stack, log, logfile, rendered>>

----------------------------------------------------------------------------
(* process_block_body: one action per case of the match at line 120 *)

\* the frame of a process_block_body call that waits for a callee
BodyFrame(pc) ==
    [fn |-> "process_block_body", pc |-> pc, block |-> ctl.arg,
     scope_init |-> ctl.scope, scope |-> ctl.scope]

BodyOf(kind) == Calling("process_block_body") /\ ctl.arg.kind = kind

\* line 121-122
BodyModel ==
    /\ BodyOf("model")
    /\ ctl' = CallOp("call_model", ctl.scope, ctl.arg)
    /\ UNCHANGED <<prog, env, stack, log, logfile, rendered>>

\* lines 123-131
BodyCode ==
    /\ BodyOf("code")
    /\ IF ctl.arg.lan = "python"
       THEN /\ stack' = Push(BodyFrame("code"))
            /\ ctl' = CallOp("call_python", ctl.scope, ctl.arg.code)
       ELSE /\ stack' = stack
            /\ ctl' = RetOp(Ret4(None, <<>>, ctl.scope,
                                 ErrorBlock("Unsupported language", ctl.arg)))
    /\ UNCHANGED <<prog, env, log, logfile, rendered>>

\* lines 124-125: call_python returned
BodyCodeReturn ==
    /\ At("process_block_body", "code") /\ Returned
    /\ stack' = Pop
    /\ ctl' = RetOp(Ret4(ctl.val.result, ctl.val.output, ctl.val.scope,
                         model_copy(Top.block, [code |-> ctl.val.trace])))
    /\ UNCHANGED <<prog, env, log, logfile, rendered>>

\* lines 132-135
BodyGet ==
    /\ BodyOf("get")
    /\ LET r == get_var(ctl.arg.get, ctl.scope)
           o == OutputOf(r.v)
       IN  ctl' = IF ~r.ok THEN RaiseOp("KeyError")
                  ELSE IF ~o.ok THEN RaiseOp("TypeError")
                  ELSE RetOp(Ret4(r.v, o.s, ctl.scope, ctl.arg))
    /\ UNCHANGED <<prog, env, stack, log, logfile, rendered>>

\* lines 136-139
BodyValue ==
    /\ BodyOf("value")
    /\ LET o == OutputOf(ctl.arg.value)
       IN  ctl' = IF ~o.ok THEN RaiseOp("TypeError")
                  ELSE RetOp(Ret4(ctl.arg.value, o.s, ctl.scope, ctl.arg))
    /\ UNCHANGED <<prog, env, stack, log, logfile, rendered>>

\* lines 140-141
BodyApi ==
    /\ BodyOf("api")
    /\ ctl' = CallOp("call_api", ctl.scope, ctl.arg)
    /\ UNCHANGED <<prog, env, stack, log, logfile, rendered>>

\* lines 142-143
BodySequence ==
    /\ BodyOf("sequence")
    /\ stack' = Push(BodyFrame("sequence"))
    /\ ctl' = CallOp("process_prompts", ctl.scope, ctl.arg.prompts)
    /\ UNCHANGED <<prog, env, log, logfile, rendered>>

\* lines 143-144, 208: process_prompts returned
BodySequenceReturn ==
    /\ At("process_block_body", "sequence") /\ Returned
    /\ stack' = Pop
    /\ ctl' = RetOp(Ret4(ctl.val.result, ctl.val.output, ctl.val.scope,
                         model_copy(Top.block, [prompts |-> ctl.val.trace])))
    /\ UNCHANGED <<prog, env, log, logfile, rendered>>

\* lines 145-146
BodyIf ==
    /\ BodyOf("if")
    /\ stack' = Push(BodyFrame("if_condition"))
    /\ ctl' = CallOp("process_condition", ctl.scope, ctl.arg.condition)
    /\ UNCHANGED <<prog, env, log, logfile, rendered>>

\* an If that goes on in the scope its condition returned
BranchScopeOfCondition(scope, cond_scope) == cond_scope

\* line 146: b, _, cond_trace = process_condition(...): the scope the
\* condition returned is dropped
BranchScope(scope, cond_scope) == scope

\* lines 146-161: process_condition returned b, _, cond_trace
BodyIfCondition ==
    /\ At("process_block_body", "if_condition") /\ Returned
    /\ IF ctl.val.result
       THEN /\ stack' = Set([pc |-> "if_prompts", cond_trace |-> ctl.val.trace])
            /\ ctl' = CallOp("process_prompts",
                             BranchScope(Top.scope, ctl.val.scope),
                             Top.block.prompts)
       ELSE /\ stack' = Pop
            /\ ctl' = RetOp(Ret4(None, <<>>,
                                 BranchScope(Top.scope, ctl.val.scope),
                                 model_copy(Top.block,
                                            [condition |-> ctl.val.trace])))
    /\ UNCHANGED <<prog, env, log, logfile, rendered>>

\* lines 149-157, 208: process_prompts returned in the true branch
BodyIfReturn ==
    /\ At("process_block_body", "if_prompts") /\ Returned
    /\ stack' = Pop
    /\ ctl' = RetOp(Ret4(ctl.val.result, ctl.val.output, ctl.val.scope,
                         model_copy(Top.block,
                                    [condition |-> Top.cond_trace,
                                     prompts |-> ctl.val.trace])))
    /\ UNCHANGED <<prog, env, log, logfile, rendered>>

\* the locals both loops start with (lines 163-166, 176-180)
LoopFrame(pc) ==
    [result |-> None, output |-> <<>>, iterations_trace |-> <<>>,
     context_init |-> ctl.scope["context"], stop |-> FALSE]
    @@ BodyFrame(pc)

\* a loop that forgets the outputs of the iterations so far
IterationContextStale(context_init, output) == context_init.v

\* lines 168, 182: the context an iteration starts with
IterationContext(context_init, output) == context_init.v \o output

\* lines 162-166
BodyRepeats ==
    /\ BodyOf("repeats")
    /\ stack' = Push(LoopFrame("repeats"))
    /\ ctl' = RunOp
    /\ UNCHANGED <<prog, env, log, logfile, rendered>>

\* lines 167-171, 174: the next iteration, or the return
RepeatsNext ==
    /\ At("process_block_body", "repeats") /\ Running
    /\ IF Len(Top.iterations_trace) < Top.block.repeats
       THEN /\ stack' = stack
            /\ ctl' = IF IsStr(Top.context_init)
                       THEN CallOp("process_prompts",
                                   SetContext(Top.scope,
                                              IterationContext(Top.context_init,
                                                               Top.output)),
                                   Top.block.prompts)
                       ELSE RaiseOp("TypeError")
       ELSE /\ stack' = Pop
            /\ ctl' = RetOp(Ret4(Top.result, Top.output, Top.scope,
                                 model_copy(Top.block,
                                            [trace |-> Top.iterations_trace])))
    /\ UNCHANGED <<prog, env, log, logfile, rendered>>

\* lines 169-173: an iteration returned
RepeatsReturn ==
    /\ At("process_block_body", "repeats") /\ Returned
    /\ stack' = Set([result |-> ctl.val.result,
                     output |-> Accumulate(Top.output, ctl.val.output),
                     scope |-> ctl.val.scope,
                     iterations_trace |->
                         Append(Top.iterations_trace, ctl.val.trace)])
    /\ ctl' = RunOp
    /\ UNCHANGED <<prog, env, log, logfile, rendered>>

\* lines 175-180
BodyRepeatsUntil ==
    /\ BodyOf("repeats_until")
    /\ stack' = Push(LoopFrame("repeats_until"))
    /\ ctl' = RunOp
    /\ UNCHANGED <<prog, env, log, logfile, rendered>>

\* lines 181-185, 189: while not stop
RepeatsUntilNext ==
    /\ At("process_block_body", "repeats_until") /\ Running
    /\ Top.stop \/ Len(Top.iterations_trace) < MaxIter
    /\ IF ~Top.stop
       THEN /\ stack' = stack
            /\ ctl' = IF IsStr(Top.context_init)
                       THEN CallOp("process_prompts",
                                   SetContext(Top.scope,
                                              IterationContext(Top.context_init,
                                                               Top.output)),
                                   Top.block.prompts)
                       ELSE RaiseOp("TypeError")
       ELSE /\ stack' = Pop
            /\ ctl' = RetOp(Ret4(Top.result, Top.output, Top.scope,
                                 model_copy(Top.block,
                                            [trace |-> Top.iterations_trace])))
    /\ UNCHANGED <<prog, env, log, logfile, rendered>>

\* lines 183-188: an iteration returned; the condition is checked next
RepeatsUntilReturn ==
    /\ At("process_block_body", "repeats_until") /\ Returned
    /\ stack' = Set([pc |-> "until_condition",
                     result |-> ctl.val.result,
                     output |-> Accumulate(Top.output, ctl.val.output),
                     scope |-> ctl.val.scope,
                     iterations_trace |->
                         Append(Top.iterations_trace, ctl.val.trace)])
    /\ ctl' = CallOp("process_condition", ctl.val.scope,
                     Top.block.repeats_until)
    /\ UNCHANGED <<prog, env, log, logfile, rendered>>

\* a loop that goes on while the condition holds
UntilStopInverted(result) == ~result

\* line 188: the loop's stop flag is the condition's result
UntilStop(result) == result

\* line 188: stop, scope, _ = process_condition(...)
RepeatsUntilCondition ==
    /\ At("process_block_body", "until_condition") /\ Returned
    /\ stack' = Set([pc |-> "repeats_until", stop |-> UntilStop(ctl.val.result),
                     scope |-> ctl.val.scope])
    /\ ctl' = RunOp
    /\ UNCHANGED <<prog, env, log, logfile, rendered>>

\* lines 190-191
BodyInput ==
    /\ BodyOf("input")
    /\ ctl' = CallOp("process_input", ctl.scope, ctl.arg)
    /\ UNCHANGED <<prog, env, stack, log, logfile, rendered>>

\* a Function block that does not bind its name in the scope it returns
FunctionScopeUnbound(scope, name, closure) == scope

\* line 195: scope = scope | {name: closure}
FunctionScope(scope, name, closure) == Bind(scope, name, closure)

\* lines 192-199
BodyFunction ==
    /\ BodyOf("function")
    /\ LET closure == ClosureOf(ctl.arg, ctl.scope)
       IN  ctl' = RetOp(Ret4(closure, <<>>,
                             FunctionScope(ctl.scope, ctl.arg.function,
                                           closure),
                             model_copy(ctl.arg, [scope |-> closure.scope])))
    /\ UNCHANGED <<prog, env, stack, log, logfile, rendered>>

\* a call scope where the caller's context wins over the arguments
CallScopeContextLast(closure, scope, args) ==
    Bind(Overlay(ClosureScope(closure), args), "context", scope["context"])

\* line 203: the scope the closure body is evaluated in
CallScope(closure, scope, args) ==
    Overlay(Bind(ClosureScope(closure), "context", scope["context"]), args)

\* the Call frames on the stack
CallDepth ==
    Cardinality({i \in DOMAIN stack :
                    stack[i].fn = "process_block_body" /\ stack[i].pc = "call"})

\* lines 200-204
BodyCall ==
    /\ BodyOf("call")
    /\ CallDepth < MaxCalls
    /\ LET r == get_var(ctl.arg.call, ctl.scope)
       IN  IF ~r.ok
           THEN /\ ctl' = RaiseOp("KeyError")
                /\ stack' = stack
           ELSE IF r.v.t # "closure"
           THEN /\ ctl' = RaiseOp("AttributeError")
                /\ stack' = stack
           ELSE /\ stack' = Push(BodyFrame("call"))
                /\ ctl' = CallOp("process_block",
                                 CallScope(r.v, ctl.scope, ctl.arg.args),
                                 r.v.block.body)
    /\ UNCHANGED <<prog, env, log, logfile, rendered>>

\* a Call that hands the closure body's scope back to the caller
ScopeAfterCallLeaks(caller, callee) == callee

\* line 204: result, output, _, f_trace: the scope stays the caller's
ScopeAfterCall(caller, callee) == caller

\* lines 204-205, 208: the closure body returned; its scope is dropped
BodyCallReturn ==
    /\ At("process_block_body", "call") /\ Returned
    /\ stack' = Pop
    /\ ctl' = RetOp(Ret4(ctl.val.result, ctl.val.output,
                         ScopeAfterCall(Top.scope, ctl.val.scope),
                         model_copy(Top.block, [trace |-> ctl.val.trace])))
    /\ UNCHANGED <<prog, env, log, logfile, rendered>>

----------------------------------------------------------------------------
(* process_condition, ends_with, contains *)

\* lines 256-266
ProcessCondition ==
    /\ Calling("process_condition")
    /\ IF ctl.arg.kind \in {"ends_with", "contains"}
       THEN /\ stack' = Push([fn |-> "process_condition", pc |-> ctl.arg.kind,
                              cond |-> ctl.arg])
            /\ ctl' = CallOp(ctl.arg.kind, ctl.scope, ctl.arg[ctl.arg.kind])
       ELSE /\ stack' = stack
            /\ ctl' = RetOp([result |-> FALSE, scope |-> ctl.scope,
                             trace |-> ctl.arg])
    /\ UNCHANGED <<prog, env, log, logfile, rendered>>

\* lines 258-259, 261-262, 266: ends_with / contains returned
ProcessConditionReturn ==
    /\ stack # <<>> /\ Top.fn = "process_condition" /\ Returned
    /\ stack' = Pop
    /\ ctl' = RetOp([result |-> ctl.val.result, scope |-> ctl.val.scope,
                     trace |-> [result |-> ctl.val.result]
                               @@ (Top.pc :> ctl.val.trace) @@ Top.cond])
    /\ UNCHANGED <<prog, env, log, logfile, rendered>>

\* lines 272-273 and 282-283: the sub-prompt is evaluated
ConditionArg ==
    /\ ctl.op = "call" /\ ctl.fn \in {"ends_with", "contains"}
    /\ stack' = Push([fn |-> ctl.fn, pc |-> "arg0", cond |-> ctl.arg,
                      context_init |-> ctl.scope["context"]])
    /\ ctl' = CallOp("process_prompt", ctl.scope, ctl.arg.arg0)
    /\ UNCHANGED <<prog, env, log, logfile, rendered>>

\* a condition that leaves the context its sub-prompt wrote
RestoreContextMissing(scope, context_init) == scope

\* lines 274 and 284: scope = scope | {"context": context_init}
RestoreContext(scope, context_init) == Bind(scope, "context", context_init)

\* lines 274-276
EndsWithReturn ==
    /\ At("ends_with", "arg0") /\ Returned
    /\ stack' = Pop
    /\ ctl' = RetOp([result |-> EndsWith(ctl.val.output, Top.cond.arg1),
                     scope |-> RestoreContext(ctl.val.scope, Top.context_init),
                     trace |-> model_copy(Top.cond, [arg0 |-> ctl.val.trace])])
    /\ UNCHANGED <<prog, env, log, logfile, rendered>>

\* lines 284-286
ContainsReturn ==
    /\ At("contains", "arg0") /\ Returned
    /\ stack' = Pop
    /\ ctl' = RetOp([result |-> Contains(Top.cond.arg1, ctl.val.output),
                     scope |-> RestoreContext(ctl.val.scope, Top.context_init),
                     trace |-> model_copy(Top.cond, [arg0 |-> ctl.val.trace])])
    /\ UNCHANGED <<prog, env, log, logfile, rendered>>

----------------------------------------------------------------------------
(* call_model *)

\* what the model backend can answer: a text, or an exception
GenTexts == {<<"y">>, <<>>}
ModelOutcomes == {[ok |-> FALSE]} \cup {[ok |-> TRUE, text |-> t] : t \in GenTexts}

\* lines 292-298
CallModel ==
    /\ Calling("call_model")
    /\ LET frame == [fn |-> "call_model", block |-> ctl.arg, scope |-> ctl.scope,
                     model_input |-> <<>>, input_trace |-> NoPrompt]
       IN  IF ctl.arg.input # NoPrompt
           THEN /\ stack' = Push([pc |-> "input"] @@ frame)
                /\ ctl' = CallOp("process_prompt", ctl.scope, ctl.arg.input)
           ELSE /\ stack' = Push([pc |-> "generate"] @@ frame)
                /\ ctl' = RunOp
    /\ UNCHANGED <<prog, env, log, logfile, rendered>>

\* a sub-prompt whose scope replaces that of the block
SubPromptScopeKept(scope, returned) == returned

\* lines 296, 366, 403: _, text, _, trace = ...: the scope a sub-prompt
\* returned is dropped
SubPromptScope(scope, returned) == scope

\* line 296: the input prompt returned
CallModelInput ==
    /\ At("call_model", "input") /\ Returned
    /\ stack' = Set([pc |-> "generate", model_input |-> ctl.val.output,
                     scope |-> SubPromptScope(Top.scope, ctl.val.scope),
                     input_trace |-> ctl.val.trace])
    /\ ctl' = RunOp
    /\ UNCHANGED <<prog, env, log, logfile, rendered>>

\* lines 299-300: the text sent to the backend
ModelInput(model_input, scope) ==
    IF model_input = <<>> THEN scope["context"] ELSE StrV(model_input)

\* a call_model that lets the failure propagate
ModelFailureRaises(msg, scope, block) == RaiseOp(msg)

\* lines 307-310, 313-316, 355-360: the failure becomes an Error node
ModelFailure(msg, scope, block) ==
    RetOp(Ret4(None, <<>>, scope, ErrorBlock(msg, block)))

\* lines 299-360
CallModelGenerate ==
    /\ At("call_model", "generate") /\ Running
    /\ stack' = Pop
    /\ \E o \in ModelOutcomes :
          LET input == ModelInput(Top.model_input, Top.scope)
              traced == model_copy(Top.block, [input |-> Top.input_trace])
          IN  IF ~env.GENAI_API
              THEN /\ ctl' = ModelFailure("GENAI_API must be defined",
                                          Top.scope, Top.block)
                   /\ log' = log
              ELSE IF ~env.GENAI_KEY
              THEN /\ ctl' = ModelFailure("GENAI_KEY must be defined",
                                          Top.scope, Top.block)
                   /\ log' = log
              ELSE IF ~IsStr(input)
              THEN \* line 345: "model input: " + model_input raises in the try
                   /\ ctl' = ModelFailure("Model error", Top.scope, traced)
                   /\ log' = log
              ELSE IF ~o.ok
              THEN /\ ctl' = ModelFailure("Model error", Top.scope, traced)
                   /\ log' = append_log(log, "Model Input", input.v)
              ELSE /\ ctl' = RetOp(Ret4(StrV(o.text), o.text, Top.scope,
                                        model_copy(traced,
                                                   [result |-> StrV(o.text)])))
                   /\ log' = append_log(append_log(log, "Model Input", input.v),
                                        "Model Output", o.text)
    /\ UNCHANGED <<prog, env, logfile, rendered>>

----------------------------------------------------------------------------
(* call_api *)

\* what the HTTP endpoint can answer: a JSON value, or an exception
ApiValues == {StrV(<<"r">>), DictV(<< <<"k", StrV(<<"a">>)>> >>)}
ApiOutcomes == {[ok |-> FALSE]} \cup {[ok |-> TRUE, v |-> v] : v \in ApiValues}

\* line 366
CallApi ==
    /\ Calling("call_api")
    /\ stack' = Push([fn |-> "call_api", pc |-> "input", block |-> ctl.arg,
                      scope |-> ctl.scope])
    /\ ctl' = CallOp("process_prompt", ctl.scope, ctl.arg.input)
    /\ UNCHANGED <<prog, env, log, logfile, rendered>>

\* lines 367-384
CallApiRequest ==
    /\ At("call_api", "input") /\ Returned
    /\ stack' = Pop
    /\ \E o \in ApiOutcomes :
          LET input_str == Top.block.url \o ctl.val.output
              traced == model_copy(Top.block, [input |-> ctl.val.trace])
          IN  IF o.ok
              THEN /\ ctl' = RetOp(Ret4(o.v, OutputOf(o.v).s,
                                        SubPromptScope(Top.scope,
                                                       ctl.val.scope),
                                        traced))
                   /\ log' = append_log(append_log(log, "API Input", input_str),
                                        "API Output", OutputOf(o.v).s)
              ELSE /\ ctl' = RetOp(Ret4(None, <<>>,
                                        SubPromptScope(Top.scope,
                                                       ctl.val.scope),
                                        ErrorBlock("API error", traced)))
                   /\ log' = append_log(log, "API Input", input_str)
    /\ UNCHANGED <<prog, env, logfile, rendered>>

----------------------------------------------------------------------------
(* call_python and get_code_string *)

\* str(v)
PyStr(v) ==
    CASE v.t = "str" -> v.v
      [] v.t = "none" -> <<"N", "o", "n", "e">>
      [] v.t = "int" -> <<Digits[v.v + 1]>>
      [] v.t = "bool" -> IF v.v THEN <<"T", "r", "u", "e">>
                                ELSE <<"F", "a", "l", "s", "e">>

\* what exec() of the code can leave in `result`, or an exception
ExecValues == {StrV(<<"p">>), IntV(3), None}
ExecOutcomes == {[ok |-> FALSE]} \cup {[ok |-> TRUE, v |-> v] : v \in ExecValues}

\* line 390
CallPython ==
    /\ Calling("call_python")
    /\ stack' = Push([fn |-> "call_python", pc |-> "code", scope |-> ctl.scope])
    /\ ctl' = CallOp("get_code_string", ctl.scope, ctl.arg)
    /\ UNCHANGED <<prog, env, log, logfile, rendered>>

\* line 403
GetCodeString ==
    /\ Calling("get_code_string")
    /\ stack' = Push([fn |-> "get_code_string", pc |-> "code",
                      scope |-> ctl.scope])
    /\ ctl' = CallOp("process_prompts", ctl.scope, ctl.arg)
    /\ UNCHANGED <<prog, env, log, logfile, rendered>>

\* lines 403-405
GetCodeStringReturn ==
    /\ At("get_code_string", "code") /\ Returned
    /\ stack' = Pop
    /\ ctl' = RetOp(Ret4(StrV(ctl.val.output), ctl.val.output,
                         SubPromptScope(Top.scope, ctl.val.scope),
                         ctl.val.trace))
    /\ UNCHANGED <<prog, env, log, logfile, rendered>>

\* lines 390-397: exec is not wrapped in a try
CallPythonExec ==
    /\ At("call_python", "code") /\ Returned
    /\ stack' = Pop
    /\ \E o \in ExecOutcomes :
          IF o.ok
          THEN /\ ctl' = RetOp(Ret4(o.v, PyStr(o.v), Top.scope, ctl.val.trace))
               /\ log' = append_log(append_log(log, "Code Input", ctl.val.output),
                                    "Code Output", PyStr(o.v))
          ELSE /\ ctl' = RaiseOp("Exception")
               /\ log' = append_log(log, "Code Input", ctl.val.output)
    /\ UNCHANGED <<prog, env, logfile, rendered>>

----------------------------------------------------------------------------
(* process_input *)

\* the JSON documents json.loads is tried on
JsonValues == {IntV(7), StrV(<<"a">>), None}

\* json.loads(s): the value whose JSON text is s, or a JSONDecodeError
Loads(s) ==
    IF \E v \in JsonValues : Dumps(v).s = s
    THEN [ok |-> TRUE, v |-> CHOOSE v \in JsonValues : Dumps(v).s = s]
    ELSE [ok |-> FALSE, v |-> None]

\* what the file or the terminal can deliver: a text (for multiline input,
\* one line), or an exception (for multiline input, the end of input)
InputTexts == {<<"a">>, <<"7">>}
InputOutcomes == {[ok |-> FALSE]} \cup {[ok |-> TRUE, s |-> s] : s \in InputTexts}

\* lines 425-450: the text read
ReadInput(block, o) ==
    IF block.filename = NONE /\ block.multiline
    THEN [ok |-> TRUE, s |-> IF o.ok THEN o.s \o <<"\n">> ELSE <<>>]
    ELSE [ok |-> o.ok, s |-> IF o.ok THEN o.s ELSE <<>>]

\* lines 411-413
BadSource(block) ==
    \/ (block.filename = NONE /\ block.stdin = FALSE)
    \/ (block.filename # NONE /\ block.stdin = TRUE)

\* lines 408-459
ProcessInput ==
    /\ Calling("process_input")
    /\ \E o \in InputOutcomes :
          LET block == ctl.arg
              json == block.json_content /\ block.assign # NONE
              read == ReadInput(block, o)
              s == read.s
              title == IF block.filename # NONE THEN "Input from File: "
                       ELSE "Input from stdin: "
          IN  IF BadSource(block)
              THEN /\ ctl' = RetOp(Ret4(None, <<>>, ctl.scope,
                                        ErrorBlock("Input block must have either a filename or stdin and not both",
                                                   block)))
                   /\ log' = log
              ELSE IF block.json_content /\ block.assign = NONE
              THEN /\ ctl' = RetOp(Ret4(None, <<>>, ctl.scope,
                                        ErrorBlock("If json_content is True in input block, then there must be def field",
                                                   block)))
                   /\ log' = log
              ELSE IF ~read.ok
              THEN /\ ctl' = RaiseOp("OSError")
                   /\ log' = log
              ELSE /\ log' = append_log(log, title, s)
                   /\ ctl' = IF json /\ ~Loads(s).ok
                             THEN RaiseOp("JSONDecodeError")
                             ELSE RetOp(Ret4(IF json THEN Loads(s).v ELSE StrV(s),
                                             s,
                                             IF json
                                             THEN Bind(ctl.scope, block.assign,
                                                       StrV(s))
                                             ELSE ctl.scope,
                                             model_copy(block,
                                                        [result |-> StrV(s)])))
    /\ UNCHANGED <<prog, env, stack, logfile, rendered>>

----------------------------------------------------------------------------
(* Exceptions and generate *)

\* no function of the evaluator catches what a callee raised
Unwind ==
    /\ ctl.op = "raise" /\ stack # <<>>
    /\ stack' = Pop
    /\ UNCHANGED <<prog, env, ctl, log, logfile, rendered>>

\* a driver that loses the transcript
FlushNothing(lines) == <<>>

\* lines 76-77: every transcript entry is written to the log file, in order
Flush(lines) == lines

\* lines 73-91: the finally clause of generate
GenerateFinally ==
    /\ stack = <<>>
    /\ ctl.op \in {"ret", "raise"}
    /\ logfile' = [written |-> TRUE, lines |-> Flush(log)]
    /\ rendered' = [done |-> TRUE,
                    trace |-> IF Returned THEN ctl.val.trace ELSE prog]
    /\ ctl' = [op |-> "exit", raised |-> ctl.op = "raise",
               result |-> IF Returned THEN ctl.val.result ELSE StrV(<<>>)]
    /\ UNCHANGED <<prog, env, stack, log>>

----------------------------------------------------------------------------
(* The programs generate() is run on *)

a == <<"a">>
b == <<"b">>
w == <<"w">>
Hello == <<"H", "e", "l", "l", "o", " ">>
World == <<"W", "o", "r", "l", "d">>

\* the prompts sequences and loops are built from
Atoms ==
    { Text(a),
      ValueBlock(StrV(w)),
      With(ValueBlock(StrV(w)), [assign |-> "x"]),
      With(ValueBlock(StrV(a)), [assign |-> "x", show_result |-> FALSE]),
      With(ValueBlock(IntV(7)), [assign |-> "context", show_result |-> FALSE]),
      GetBlock(<<"x">>),
      GetBlock(<<"context">>),
      With(ModelBlock(NoPrompt), [assign |-> "x"]),
      With(SequenceBlock(<<Text(b), ValueBlock(StrV(a))>>),
           [defs |-> <<With(ValueBlock(StrV(w)), [assign |-> "y"])>>]) }

PromptLists ==
    {<<>>} \cup {<<p>> : p \in Atoms} \cup {<<p, q>> : p, q \in Atoms}
    \cup {<<Text(a), p, GetBlock(<<"context">>)>> : p \in Atoms}

\* a def that binds y and leaves its output in the context
SomeDefs ==
    <<With(ValueBlock(StrV(b)), [assign |-> "y"]),
      With(ValueBlock(StrV(w)), [assign |-> "x", show_result |-> FALSE]),
      ValueBlock(StrV(a))>>

\* true at once, and its sub-prompt binds x and overwrites the context
CondBinds ==
    EndsWithCondition(With(ValueBlock(StrV(w)), [assign |-> "x"]), w)
\* true once the context holds "aa"
CondTwice == ContainsCondition(GetBlock(<<"context">>), <<"a", "a">>)
\* true once the context holds "a"
CondOnce == ContainsCondition(GetBlock(<<"context">>), a)
\* false
CondNever == EndsWithCondition(Text(a), b)

Conditions == {CondBinds, CondTwice, CondOnce, CondNever, OtherCondition}

ControlPrograms ==
    {SequenceBlock(ps) : ps \in PromptLists}
    \cup {With(SequenceBlock(ps), [defs |-> SomeDefs]) : ps \in PromptLists}
    \cup {RepeatsBlock(n, ps) : n \in 0..MaxRepeats, ps \in PromptLists}
    \cup {IfBlock(c, ps) : c \in Conditions, ps \in PromptLists}
    \cup {RepeatsUntilBlock(c, ps) : c \in Conditions, ps \in PromptLists}

\* the call arguments {} (block.args)
NoArgs == [n \in {} |-> None]
Args1(n, v) == [m \in {n} |-> v]
Args2(n1, v1, n2, v2) == [m \in {n1, n2} |-> IF m = n1 THEN v1 ELSE v2]

\* a body that reads what it can see and binds x and y
BodyReads ==
    SequenceBlock(<<GetBlock(<<"x">>), GetBlock(<<"context">>),
                    With(ValueBlock(StrV(b)), [assign |-> "y"]),
                    With(ValueBlock(StrV(b)), [assign |-> "x"])>>)

\* f calls itself for ever
BodyLoops == SequenceBlock(<<Text(a), CallBlock(<<"f">>, NoArgs)>>)

\* f rebinds its own name and then calls it
BodyRebinds ==
    SequenceBlock(<<With(ValueBlock(StrV(w)), [assign |-> "f"]),
                    CallBlock(<<"f">>, NoArgs)>>)

\* f produces a text
BodyText == SequenceBlock(<<Text(b)>>)

\* f calls itself while the context ends with "a"
BodyRecurses ==
    IfBlock(EndsWithCondition(GetBlock(<<"context">>), a),
            <<Text(b), CallBlock(<<"f">>, NoArgs)>>)

CallArgs ==
    { NoArgs,
      Args1("x", StrV(<<"q">>)),
      Args1("context", StrV(<<"k">>)),
      Args1("context", IntV(5)),
      Args2("x", IntV(1), "y", StrV(<<"q">>)),
      Args1("f", StrV(<<"q">>)) }

ClosurePrograms ==
    \* define f after x is bound, bind z, call f, then read what leaked
    { SequenceBlock(<<With(ValueBlock(StrV(w)), [assign |-> "x"]),
                      FunctionBlock("f", body),
                      With(ValueBlock(StrV(a)), [assign |-> "z"]),
                      With(CallBlock(<<"f">>, args), upd),
                      GetBlock(<<"x">>)>>)
        : body \in {BodyReads, BodyLoops, BodyRecurses, BodyRebinds},
          args \in CallArgs,
          upd \in {[assign |-> NONE], [assign |-> "r", show_result |-> FALSE]} }
    \cup
    \* a function named by a def, by an assign, and named "context"
    { With(SequenceBlock(<<Text(a), CallBlock(<<"f">>, NoArgs)>>),
           [defs |-> <<FunctionBlock("f", BodyRecurses)>>]),
      SequenceBlock(<<With(FunctionBlock("f", BodyLoops), [assign |-> "g"]),
                      Text(a), CallBlock(<<"g">>, NoArgs)>>),
      SequenceBlock(<<With(FunctionBlock("context",
                                         SequenceBlock(<<Text(a),
                                                         CallBlock(<<"context">>,
                                                                   NoArgs)>>)),
                           [assign |-> "g"]),
                      CallBlock(<<"g">>, NoArgs)>>),
      SequenceBlock(<<With(ValueBlock(StrV(w)), [assign |-> "f"]),
                      CallBlock(<<"f">>, NoArgs)>>),
      SequenceBlock(<<CallBlock(<<"f">>, NoArgs), Text(a)>>),
      RepeatsBlock(2, <<FunctionBlock("f", BodyText), Text(a),
                        CallBlock(<<"f">>, NoArgs)>>),
      SequenceBlock(<<FunctionBlock("f", BodyText),
                      With(ValueBlock(StrV(w)), [assign |-> "f"]),
                      CallBlock(<<"f">>, NoArgs)>>),
      With(CallBlock(<<"f">>, Args1("x", StrV(a))),
           [defs |-> <<FunctionBlock("f", BodyReads),
                       With(ValueBlock(StrV(w)), [assign |-> "y"])>>,
            assign |-> "r"]) }

\* the blocks that reach outside the evaluator
Externals ==
    { ModelBlock(NoPrompt),
      ModelBlock(Text(<<"q">>)),
      ModelBlock(Text(<<>>)),
      ModelBlock(GetBlock(<<"z">>)),
      With(ModelBlock(With(ValueBlock(StrV(w)), [assign |-> "x"])),
           [assign |-> "m"]),
      With(ModelBlock(NoPrompt), [assign |-> "x", show_result |-> FALSE]),
      ApiBlock(<<"u">>, With(ValueBlock(StrV(w)), [assign |-> "x"])),
      With(ApiBlock(<<"u">>, Text(a)), [assign |-> "x"]),
      CodeBlock("python", <<Text(<<"c">>),
                            With(ValueBlock(StrV(w)), [assign |-> "x"])>>),
      With(CodeBlock("python", <<Text(<<"c">>)>>), [assign |-> "x"]),
      CodeBlock("ruby", <<Text(<<"c">>)>>),
      InputBlock("file", FALSE, FALSE),
      InputBlock(NONE, TRUE, FALSE),
      With(InputBlock(NONE, TRUE, FALSE), [multiline |-> TRUE]),
      InputBlock(NONE, FALSE, FALSE),
      InputBlock("file", TRUE, FALSE),
      InputBlock("file", FALSE, TRUE),
      With(InputBlock("file", FALSE, TRUE), [assign |-> "x"]) }

ExternalPrograms ==
    {SequenceBlock(<<Text(a), e, GetBlock(<<"context">>)>>) : e \in Externals}
    \cup {SequenceBlock(<<With(ValueBlock(StrV(b)), [assign |-> "x"]), e,
                          GetBlock(<<"x">>)>>) : e \in Externals}
    \cup {RepeatsBlock(2, <<e>>) : e \in Externals}

\* variable paths: a dict, a present and an absent key, a non-dict
PathPrograms ==
    { SequenceBlock(<<Text(a),
                      With(ValueBlock(v), [assign |-> "x"]),
                      GetBlock(segs),
                      Text(b)>>)
        : v \in {DictV(<< <<"k", StrV(a)>> >>),
                 DictV(<< <<"k", DictV(<< <<"j", IntV(1)>> >>)>> >>),
                 StrV(w)},
          segs \in {<<"x">>, <<"x", "k">>, <<"x", "j">>, <<"x", "k", "j">>,
                    <<"z">>} }

HelloWorld == SequenceBlock(<<Text(Hello), ValueBlock(StrV(World))>>)

\* a loop whose condition holds on entry, inside a sequence
TrueOnEntry ==
    SequenceBlock(<<Text(a), RepeatsUntilBlock(CondOnce, <<Text(b)>>)>>)
\* a loop whose condition holds after three iterations
ThreeTimes == RepeatsUntilBlock(CondTwice, <<Text(a)>>)

Programs ==
    {TrueOnEntry} \cup ControlPrograms \cup ClosurePrograms \cup ExternalPrograms
    \cup PathPrograms \cup {HelloWorld}

\* GENAI_API and GENAI_KEY (lines 48-49): set or not
Configured == [GENAI_API |-> TRUE, GENAI_KEY |-> TRUE]
Environments == [GENAI_API : BOOLEAN, GENAI_KEY : BOOLEAN]

----------------------------------------------------------------------------
(* The specification *)

\* lines 61-72: generate() up to its call of process_block; a program is
\* run without the model's configuration only if it reaches outside
Init ==
    /\ prog \in Programs
    /\ env \in Environments
    /\ env # Configured => prog \in ExternalPrograms
    /\ ctl = CallOp("process_block", empty_scope, prog)
    /\ stack = <<>>
    /\ log = <<>>
    /\ logfile = [written |-> FALSE, lines |-> <<>>]
    /\ rendered = [done |-> FALSE, trace |-> prog]

Next ==
    \/ ProcessBlock \/ ProcessBlockDefs \/ ProcessBlockReturn
    \/ ProcessDefs \/ ProcessDefsNext \/ ProcessDefsReturn
    \/ ProcessPrompts \/ ProcessPromptsNext \/ ProcessPromptsReturn
    \/ ProcessPromptText \/ ProcessPromptBlock
    \/ BodyModel \/ BodyCode \/ BodyCodeReturn \/ BodyGet \/ BodyValue
    \/ BodyApi \/ BodySequence \/ BodySequenceReturn
    \/ BodyIf \/ BodyIfCondition \/ BodyIfReturn
    \/ BodyRepeats \/ RepeatsNext \/ RepeatsReturn
    \/ BodyRepeatsUntil \/ RepeatsUntilNext \/ RepeatsUntilReturn
    \/ RepeatsUntilCondition
    \/ BodyInput \/ BodyFunction \/ BodyCall \/ BodyCallReturn
    \/ ProcessCondition \/ ProcessConditionReturn
    \/ ConditionArg \/ EndsWithReturn \/ ContainsReturn
    \/ CallModel \/ CallModelInput \/ CallModelGenerate
    \/ CallApi \/ CallApiRequest
    \/ CallPython \/ GetCodeString \/ GetCodeStringReturn \/ CallPythonExec
    \/ ProcessInput
    \/ Unwind \/ GenerateFinally

Spec == Init /\ [][Next]_vars

----------------------------------------------------------------------------
(* What the claims speak of *)

\* the frame k below the top one
Under(k) == stack[Len(stack) - k]

\* the text a prompt handed to its caller, read off its trace: the literal
\* itself, or the block's result field unless show_result is false
Contributed(trace) ==
    IF IsText(trace) THEN trace.text
    ELSE IF trace.show_result = FALSE THEN <<>>
    ELSE trace.result.v

\* the concatenation of what the prompts of a list of traces handed over
OutputsOf(traces) == Concat([i \in DOMAIN traces |-> Contributed(traces[i])])

\* prompt number Top.i of a Sequence block is about to be evaluated
SequencePromptStarts ==
    /\ Calling("process_prompt")
    /\ At("process_prompts", "for")
    /\ Len(stack) >= 3
    /\ Under(1).fn = "process_block_body" /\ Under(1).pc = "sequence"
    /\ Under(2).fn = "process_block"

\* C1 as claimed: every prompt Pi of a Sequence block, with or without defs,
\* starts with the context the Sequence node was entered with followed by
\* the outputs of P1..P(i-1).
C1_NodeEntryContext ==
    SequencePromptStarts =>
        /\ IsStr(Under(2).scope0["context"])
        /\ ctl.scope["context"]
             = StrV(Under(2).scope0["context"].v \o OutputsOf(Top.trace))

\* C1 amended: every prompt Pi of a Sequence block starts with the context
\* the body of the Sequence was entered with, followed by the outputs of
\* P1..P(i-1); the body's context is the one the node was entered with when
\* the node has no defs.
C1_ContextAccumulation ==
    SequencePromptStarts =>
        /\ Len(Top.trace) = Top.i - 1
        /\ ctl.scope["context"]
             = StrV(Under(1).scope_init["context"].v \o OutputsOf(Top.trace))
        /\ Len(Under(2).block.defs) = 0 => Under(1).scope_init = Under(2).scope0

\* a nested Sequence with defs starts a prompt after a sibling that had
\* show_result false and after the context had been written to
C1_Witness ==
    /\ SequencePromptStarts
    /\ Top.i = 3
    /\ Len(Under(2).block.defs) > 0
    /\ ~IsText(Top.trace[2]) /\ Top.trace[2].show_result = FALSE
    /\ Under(1).scope_init["context"] # Under(2).scope0["context"]
    /\ ctl.scope["context"] # StrV(<<>>)

\* an iteration of a Repeats block is about to start
RepeatsIterationStarts ==
    Calling("process_prompts") /\ At("process_block_body", "repeats")

\* the body of a block of this kind has just returned to process_block
BodyReturned(kind) ==
    /\ At("process_block", "body") /\ Returned
    /\ Top.block.kind = kind

\* the outputs of the iterations of a loop, read off its trace
IterationOutputs(traces) ==
    Concat([j \in DOMAIN traces |-> OutputsOf(traces[j])])

\* C2: iteration j of Repeats starts with the context at loop entry followed
\* by the outputs of iterations 1..j-1; the block evaluates its prompts
\* exactly n times, its output is the concatenation of the n iteration
\* outputs, its trace holds n sub-traces, and n = 0 gives empty output and
\* result None.
C2_Repeats ==
    /\ RepeatsIterationStarts =>
          /\ Len(Top.iterations_trace) < Top.block.repeats
          /\ ctl.arg = Top.block.prompts
          /\ ctl.scope["context"]
               = StrV(Top.scope_init["context"].v
                      \o IterationOutputs(Top.iterations_trace))
    /\ BodyReturned("repeats") =>
          /\ Len(ctl.val.trace.trace) = Top.block.repeats
          /\ \A j \in DOMAIN ctl.val.trace.trace :
                Len(ctl.val.trace.trace[j]) = Len(Top.block.prompts)
          /\ ctl.val.output = IterationOutputs(ctl.val.trace.trace)
          /\ Top.block.repeats = 0 =>
                ctl.val.output = <<>> /\ ctl.val.result = None

\* the last iteration of a Repeats starts after iterations that produced text
C2_Witness ==
    /\ RepeatsIterationStarts
    /\ Top.block.repeats = MaxRepeats
    /\ Len(Top.iterations_trace) = MaxRepeats - 1
    /\ Top.output # <<>>
    /\ Len(Top.block.prompts) = 2

\* a condition has just returned to the If or RepeatsUntil that asked for it
ConditionReturned ==
    /\ Returned
    /\ stack # <<>>
    /\ Top.fn = "process_block_body"
    /\ Top.pc \in {"if_condition", "until_condition"}

\* C3: the scope process_condition returns has the context of the scope it
\* was passed, for every kind of condition and every sub-prompt.
C3_ConditionKeepsContext ==
    ConditionReturned => ctl.val.scope["context"] = Top.scope["context"]

\* a condition whose sub-prompt is a block that bound x and wrote "w" to the
\* context has returned
C3_Witness ==
    /\ ConditionReturned
    /\ ctl.val.trace.kind = "ends_with"
    /\ ~IsText(ctl.val.trace.ends_with.arg0)
    /\ "x" \in DOMAIN ctl.val.scope /\ "x" \notin DOMAIN Top.scope
    /\ Top.scope["context"] # StrV(w)


\* process_block is about to finish (lines 102-110) for the block Top.block
ProcessBlockReturns == At("process_block", "body") /\ Returned

\* C4 as claimed: a block with show_result false returns the empty text and
\* the empty context, and binds its assign name, whatever it is, to its result.
C4_AnyAssignName ==
    [][(ProcessBlockReturns /\ Top.block.show_result = FALSE) =>
          /\ ctl'.val.output = <<>>
          /\ ctl'.val.scope["context"] = StrV(<<>>)
          /\ Top.block.assign # NONE =>
                /\ Top.block.assign \in DOMAIN ctl'.val.scope
                /\ ctl'.val.scope[Top.block.assign] = ctl.val.result]_vars

\* C4 amended: a block with show_result false returns the empty text and the
\* empty context, and binds its assign name, unless that name is "context",
\* to its result.
C4_ShowResultSuppression ==
    [][(ProcessBlockReturns /\ Top.block.show_result = FALSE) =>
          /\ ctl'.val.output = <<>>
          /\ ctl'.val.scope["context"] = StrV(<<>>)
          /\ ctl'.val.result = ctl.val.result
          /\ Top.block.assign \notin {NONE, "context"} =>
                /\ Top.block.assign \in DOMAIN ctl'.val.scope
                /\ ctl'.val.scope[Top.block.assign] = ctl.val.result]_vars

\* a block with show_result false and assign x has returned inside a
\* sequence: no text, x bound to its result "a"
C4_Witness ==
    /\ At("process_prompts", "for") /\ Returned
    /\ ~IsText(ctl.val.trace)
    /\ ctl.val.trace.show_result = FALSE /\ ctl.val.trace.assign = "x"
    /\ ctl.val.trace.result = StrV(a)
    /\ ctl.val.output = <<>>
    /\ ctl.val.scope["x"] = StrV(a)

\* the condition of a RepeatsUntil is about to be evaluated
UntilConditionCalled ==
    Calling("process_condition") /\ At("process_block_body", "until_condition")

\* the condition of a RepeatsUntil has returned
UntilConditionReturned ==
    Returned /\ At("process_block_body", "until_condition")

\* a RepeatsUntil is at the head of its loop (line 181)
UntilLoopHead == Running /\ At("process_block_body", "repeats_until")

\* C5: RepeatsUntil runs its prompts once before the first check, checks the
\* condition after every iteration against the scope the iteration produced,
\* and returns right after the first check that is true, with one sub-trace
\* per iteration (at least one, also when the condition holds on entry).
C5_DoWhile ==
    /\ [](UntilConditionCalled =>
             /\ Len(Top.iterations_trace) >= 1
             /\ ctl.arg = Top.block.repeats_until
             /\ ctl.scope = Top.scope)
    /\ [](UntilLoopHead => (Top.stop => Len(Top.iterations_trace) >= 1))
    /\ [](BodyReturned("repeats_until") => Len(ctl.val.trace.trace) >= 1)
    /\ [](prog = ThreeTimes /\ ctl.op = "exit" =>
             Len(rendered.trace.trace) = 3)
    /\ [](prog = TrueOnEntry /\ ctl.op = "exit" =>
             Len(rendered.trace.prompts[2].trace) = 1)
    /\ [][At("process_block_body", "repeats_until") /\ Returned =>
             /\ UntilConditionCalled'
             /\ Len(Top'.iterations_trace) = Len(Top.iterations_trace) + 1]_vars
    /\ [][UntilConditionReturned =>
             /\ UntilLoopHead'
             /\ Top'.stop = ctl.val.result
             /\ Top'.iterations_trace = Top.iterations_trace]_vars
    /\ [][UntilLoopHead =>
             IF Top.stop
             THEN /\ ctl'.op = "ret"
                  /\ ctl'.val.trace.trace = Top.iterations_trace
                  /\ stack' = Pop
             ELSE /\ ctl'.op \in {"call", "raise"}
                  /\ ctl'.op = "call" =>
                        ctl'.fn = "process_prompts" /\ stack' = stack]_vars

\* a loop whose condition holds only after its third iteration has stopped
ThreeIterations ==
    /\ prog = ThreeTimes /\ UntilLoopHead
    /\ Top.stop /\ Len(Top.iterations_trace) = 3

\* a loop entered with its condition already true has stopped after its
\* first iteration, and not before it
C5_Witness ==
    /\ prog = TrueOnEntry /\ UntilLoopHead
    /\ Top.stop /\ Len(Top.iterations_trace) = 1
    /\ Top.scope_init["context"] = StrV(a)

\* call_model is about to decide its outcome (lines 299-360)
ModelGenerates == At("call_model", "generate") /\ Running

\* call_model has returned an Error node to process_block
ModelErrorReturned == BodyReturned("model") /\ ctl.val.trace.kind = "error"

\* what call_model does on its own: it returns whatever happens, leaves the
\* scope alone, and a failure is an Error node with a message and the block,
\* result None and no text
ModelFailureIsData ==
    [][ModelGenerates =>
          /\ ctl'.op = "ret"
          /\ ctl'.val.scope = Top.scope
          /\ env # Configured => ctl'.val.trace.kind = "error"
          /\ ctl'.val.trace.kind = "error" =>
                /\ ctl'.val.result = None
                /\ ctl'.val.output = <<>>
                /\ ctl'.val.trace.msg
                     \in {"GENAI_API must be defined",
                          "GENAI_KEY must be defined", "Model error"}
                /\ ctl'.val.trace.block
                     \in {Top.block,
                          model_copy(Top.block, [input |-> Top.input_trace])}]_vars

\* the scope process_block returns for a Model block that produced the text
\* gen and the result r, from the scope the body was entered with
ScopeAfterModel(block, scope, r) ==
    SetContext(IF block.assign # NONE THEN Bind(scope, block.assign, r)
               ELSE scope, <<>>)

\* C6 as claimed: a failing Model block yields an Error node, None and no
\* text, no exception, and leaves the context and the bindings it would have
\* left had the model produced empty output.
C6_AsIfEmptyOutput ==
    /\ ModelFailureIsData
    /\ [][ModelErrorReturned =>
             /\ ctl'.val.trace.kind = "error"
             /\ ctl'.val.result = None
             /\ ctl'.val.output = <<>>
             /\ ctl'.val.scope
                  = ScopeAfterModel(Top.block, ctl.val.scope, StrV(<<>>))]_vars

\* C6 amended: a failing Model block yields an Error node, None and no text,
\* no exception, and leaves the context it would have left had the model
\* produced empty output, and the same bindings except that its assign name,
\* if set, is bound to None and not to the empty text.
C6_ErrorContainment ==
    /\ ModelFailureIsData
    /\ [][ModelErrorReturned =>
             /\ ctl'.val.trace.kind = "error"
             /\ ctl'.val.result = None
             /\ ctl'.val.output = <<>>
             /\ ctl'.val.scope
                  = ScopeAfterModel(Top.block, ctl.val.scope, None)]_vars

\* the sibling after a failed Model block with assign x starts: the context
\* is what it was, x is None
C6_Witness ==
    /\ SequencePromptStarts
    /\ Top.i = 2
    /\ Top.trace[1].kind = "error"
    /\ Top.trace[1].block.kind = "model"
    /\ ctl.scope["x"] = None
    /\ ctl.scope["context"] = Under(1).scope_init["context"]


\* the innermost Call frame on the stack
InnerCall ==
    CHOOSE i \in DOMAIN stack :
        /\ stack[i].fn = "process_block_body" /\ stack[i].pc = "call"
        /\ \A j \in DOMAIN stack :
              (stack[j].fn = "process_block_body" /\ stack[j].pc = "call")
                  => j <= i

\* the closure a Call frame is evaluating the body of
ClosureCalled(frame) == get_var(frame.block.call, frame.scope).v

RECURSIVE Binders(_)
\* the names a block can bind: its assign, a function's name, and those of
\* its defs and prompts
Binders(block) ==
    IF IsText(block) THEN {}
    ELSE (IF block.assign # NONE THEN {block.assign} ELSE {})
         \cup (IF block.kind = "function" THEN {block.function} ELSE {})
         \cup UNION {Binders(block.defs[i]) : i \in DOMAIN block.defs}
         \cup (IF block.kind \in {"sequence", "if", "repeats", "repeats_until"}
               THEN UNION {Binders(block.prompts[i]) :
                              i \in DOMAIN block.prompts}
               ELSE {})
         \cup (IF /\ block.kind = "repeats_until"
                   /\ block.repeats_until.kind \in {"ends_with", "contains"}
               THEN Binders(block.repeats_until[block.repeats_until.kind].arg0)
               ELSE {})

\* a Call of f by its own name is about to be resolved inside the body of
\* f, which was called with arguments that do not rebind f
RecursiveCall ==
    /\ BodyOf("call")
    /\ CallDepth >= 1
    /\ LET f == ClosureCalled(stack[InnerCall]).block.function
       IN  /\ ctl.arg.call = <<f>>
           /\ f \notin DOMAIN stack[InnerCall].block.args

\* the body of a closure is about to be evaluated in its call-time scope
CallBodyStarts ==
    Calling("process_block") /\ At("process_block_body", "call")

\* C7 as claimed: a Call to f from inside the body of f, called with
\* arguments that do not rebind f, resolves f to the closure, at every depth.
C7_AnyFunctionName ==
    RecursiveCall =>
        get_var(ctl.arg.call, ctl.scope)
          = [ok |-> TRUE, v |-> ClosureCalled(stack[InnerCall])]

\* C7 amended: the captured scope of the closure of f maps f to that closure;
\* the call-time scope built from it with arguments that do not rebind f maps
\* f to the closure unless f is "context"; and a Call to f from inside the
\* body of f resolves f to the closure, at every depth, unless f is "context"
\* or the body itself binds f.
C7_ClosureSelfReference ==
    /\ CallBodyStarts =>
          LET c == ClosureCalled(Top)
              f == c.block.function
          IN  /\ c.t = "closure"
              /\ f \in DOMAIN ClosureScope(c) /\ ClosureScope(c)[f] = c
              /\ ctl.arg = c.block.body
              /\ (f # "context" /\ f \notin DOMAIN Top.block.args) =>
                    f \in DOMAIN ctl.scope /\ ctl.scope[f] = c
    /\ RecursiveCall =>
          LET c == ClosureCalled(stack[InnerCall])
              f == c.block.function
          IN  (f # "context" /\ f \notin Binders(c.block.body)) =>
                  get_var(ctl.arg.call, ctl.scope) = [ok |-> TRUE, v |-> c]

\* f is called by name from the body of f, itself called from the body of f
C7_Witness ==
    /\ RecursiveCall
    /\ CallDepth = 2
    /\ ClosureCalled(stack[InnerCall]).block.function = "f"
    /\ get_var(ctl.arg.call, ctl.scope).v = ClosureCalled(stack[InnerCall])

\* C8: the scope a Call evaluates the closure body in is the captured scope,
\* overridden by the caller's context under "context", overridden by the
\* arguments; names bound only in the caller's scope are absent.
C8_CallScopePrecedence ==
    CallBodyStarts =>
        LET c == ClosureCalled(Top)
            captured == ClosureScope(c)
            args == Top.block.args
        IN  /\ DOMAIN ctl.scope
                 = DOMAIN captured \cup {"context"} \cup DOMAIN args
            /\ \A n \in DOMAIN ctl.scope :
                  ctl.scope[n] = IF n \in DOMAIN args THEN args[n]
                                 ELSE IF n = "context"
                                 THEN Top.scope["context"]
                                 ELSE captured[n]

\* a body starts with an argument named "context" that beat the caller's
\* context, a caller's context that beat the captured one, a captured x, and
\* without the z only the caller had bound
C8_Witness ==
    /\ CallBodyStarts
    /\ "context" \in DOMAIN Top.block.args
    /\ ctl.scope["context"] = Top.block.args["context"]
    /\ Top.scope["context"] # ClosureScope(ClosureCalled(Top))["context"]
    /\ Top.scope["context"] # ctl.scope["context"]
    /\ "z" \in DOMAIN Top.scope /\ "z" \notin DOMAIN ctl.scope
    /\ ctl.scope["x"] = ClosureCalled(Top).scope["x"]

\* the body of a closure has returned to the Call that evaluated it
CallBodyReturned == At("process_block_body", "call") /\ Returned

\* C9: after a Call block the caller's scope differs from the scope before
\* the call only in "context" (the call's output text) and in the Call's own
\* assign name; nothing the closure body bound and no argument is visible.
C9_NoLeakage ==
    /\ [][CallBodyReturned => ctl'.val.scope = Top.scope_init]_vars
    /\ [][BodyReturned("call") =>
             /\ ctl'.val.scope["context"] = StrV(ctl'.val.output)
             /\ Top.block.assign # NONE =>
                   Top.block.assign \in DOMAIN ctl'.val.scope
             /\ DOMAIN ctl'.val.scope \ {Top.block.assign}
                  = DOMAIN ctl.val.scope \ {Top.block.assign}
             /\ \A n \in DOMAIN ctl.val.scope \ {"context", Top.block.assign} :
                   ctl'.val.scope[n] = ctl.val.scope[n]]_vars

\* a body called with an argument has returned after binding a y the caller
\* does not have and rebinding the caller's x
C9_Witness ==
    /\ CallBodyReturned
    /\ DOMAIN Top.block.args # {}
    /\ "y" \in DOMAIN ctl.val.scope /\ "y" \notin DOMAIN Top.scope_init
    /\ "x" \in DOMAIN Top.scope_init
    /\ ctl.val.scope["x"] # Top.scope_init["x"]
    /\ Top.block.assign = "r"

\* process_prompts, called for a Sequence block, is at the head of its loop
SequenceLoopHead ==
    /\ Running /\ At("process_prompts", "for")
    /\ Len(stack) >= 2
    /\ Under(1).fn = "process_block_body" /\ Under(1).pc = "sequence"

\* a prompt of a Sequence block has returned to process_prompts
SequencePromptReturned ==
    /\ Returned /\ At("process_prompts", "for")
    /\ Len(stack) >= 2
    /\ Under(1).fn = "process_block_body" /\ Under(1).pc = "sequence"

\* the result, output and trace of a Sequence: the result is that of the last
\* prompt (None without prompts, the text for a literal), the output is
\* the concatenation of the prompts' outputs, the trace holds one trace per
\* prompt, and ["Hello ", Value("World")] gives "Hello World", "World" and
\* a second trace with result "World"
SequenceResult ==
    /\ [](SequenceLoopHead =>
             /\ Len(Top.trace) = Top.i - 1
             /\ Top.i = 1 => Top.result = None /\ Top.output = <<>>
             /\ (Top.i > 1 /\ IsText(Top.prompts[Top.i - 1])) =>
                   /\ Top.result = StrV(Top.prompts[Top.i - 1].text)
                   /\ Top.trace[Top.i - 1] = Top.prompts[Top.i - 1])
    /\ [](BodyReturned("sequence") =>
             /\ Len(ctl.val.trace.prompts) = Len(Top.block.prompts)
             /\ Len(Top.block.prompts) = 0 => ctl.val.result = None)
    /\ [](prog = HelloWorld /\ ctl.op = "exit" =>
             /\ ctl.result = StrV(World)
             /\ rendered.trace.result = StrV(Hello \o World)
             /\ Len(rendered.trace.prompts) = 2
             /\ rendered.trace.prompts[2].result = StrV(World))
    /\ [][SequencePromptReturned =>
             /\ Top'.result = ctl.val.result
             /\ Top'.output = Top.output \o ctl.val.output
             /\ Top'.trace = Append(Top.trace, ctl.val.trace)]_vars
    /\ [][(SequenceLoopHead /\ Top.i > Len(Top.prompts)) =>
             /\ ctl'.val.result = Top.result
             /\ ctl'.val.output = Top.output
             /\ ctl'.val.trace = Top.trace]_vars
    /\ [][(At("process_block_body", "sequence") /\ Returned) =>
             /\ ctl'.val.result = ctl.val.result
             /\ ctl'.val.output = ctl.val.output
             /\ ctl'.val.trace.prompts = ctl.val.trace]_vars

\* C10 as claimed: the result, output and trace of a Sequence, each block
\* trace carrying in its result field the output that prompt handed over.
C10_TraceCarriesOutput ==
    /\ SequenceResult
    /\ [](SequencePromptReturned =>
             (~IsText(ctl.val.trace) =>
                 ctl.val.trace.result = StrV(ctl.val.output)))

\* C10 amended: the result, output and trace of a Sequence, each block trace
\* carrying in its result field the output of that prompt as computed before
\* show_result is applied: the output the prompt handed over unless its
\* show_result is false, in which case the prompt handed over nothing.
C10_SequenceResult ==
    /\ SequenceResult
    /\ [](SequencePromptReturned =>
             (~IsText(ctl.val.trace) =>
                 IF ctl.val.trace.show_result = FALSE
                 THEN ctl.val.output = <<>>
                 ELSE ctl.val.trace.result = StrV(ctl.val.output)))
    /\ [][ProcessBlockReturns =>
             ctl'.val.trace.result = StrV(ctl.val.output)]_vars

\* the second prompt of a Sequence, a block with show_result false that
\* computed "a", has returned after a first prompt that produced text
C10_Witness ==
    /\ SequencePromptReturned
    /\ Top.i = 2 /\ Top.output # <<>>
    /\ ~IsText(ctl.val.trace)
    /\ ctl.val.trace.show_result = FALSE
    /\ ctl.val.trace.result = StrV(a)
    /\ ctl.val.output = <<>>

\* the two transcript entries call_model appends before it asks the backend
\* (line 346), given the transcript before and after the step
SentToModel(before, after) ==
    IF /\ Len(after) >= Len(before) + 2
       /\ after[Len(before) + 1] = <<"title", "Model Input">>
    THEN [sent |-> TRUE, text |-> after[Len(before) + 2][2]]
    ELSE [sent |-> FALSE]

\* C11 as claimed: a Model block's explicit input prompt is evaluated under
\* the current scope, and whenever the block has an explicit input the text
\* sent to the backend is exactly the output of that prompt, whatever it is;
\* the context is sent only when the block has no explicit input.
C11_ExplicitInputSent ==
    /\ [][(Calling("call_model") /\ ctl.arg.input # NoPrompt) =>
             /\ ctl'.op = "call" /\ ctl'.fn = "process_prompt"
             /\ ctl'.scope = ctl.scope /\ ctl'.arg = ctl.arg.input]_vars
    /\ [][(At("call_model", "input") /\ Returned) =>
             Top'.model_input = ctl.val.output]_vars
    /\ [][(ModelGenerates /\ env = Configured) =>
             IF Top.block.input # NoPrompt
             THEN SentToModel(log, log')
                    = [sent |-> TRUE, text |-> Top.model_input]
             ELSE IsStr(Top.scope["context"]) =>
                    SentToModel(log, log')
                      = [sent |-> TRUE, text |-> Top.scope["context"].v]]_vars

\* a Model block whose explicit input prompt produced the empty text is
\* about to ask the backend, with a context that is not empty
C11_Witness ==
    /\ ModelGenerates /\ env = Configured
    /\ Top.block.input # NoPrompt
    /\ Top.model_input = <<>>
    /\ Top.scope["context"] = StrV(a)

\* a Get or a Call is about to look up a path one of whose segments is absent
LookupFault ==
    /\ BodyOf("get") \/ BodyOf("call")
    /\ ~get_var(IF ctl.arg.kind = "get" THEN ctl.arg.get ELSE ctl.arg.call,
                ctl.scope).ok

\* a lookup fault is on its way out of the evaluator
LookupFaultRaised == ctl.op = "raise" /\ ctl.exc = "KeyError"

\* C12: a Get or Call of a path with an absent segment raises; nothing in the
\* evaluator catches the fault, so no Error node is made and no sibling is
\* evaluated after it; the driver then writes to the log file exactly the
\* transcript entries appended before the fault, in order, and renders the
\* initial program tree as the trace.
C12_FatalLookupFault ==
    /\ [][LookupFault =>
             LookupFaultRaised' /\ log' = log /\ stack' = stack]_vars
    /\ [](LookupFaultRaised => ENABLED (Unwind \/ GenerateFinally))
    /\ [][LookupFaultRaised =>
             /\ log' = log
             /\ \/ LookupFaultRaised' /\ Len(stack') < Len(stack)
                \/ /\ ctl'.op = "exit" /\ ctl'.raised
                   /\ logfile' = [written |-> TRUE, lines |-> log]
                   /\ rendered' = [done |-> TRUE, trace |-> prog]]_vars
    /\ []((ctl.op = "exit" /\ ctl.raised) =>
             logfile.lines = log /\ rendered.trace = prog)

\* a Get of the absent name z, third prompt of a Sequence, has ended the run:
\* the log file holds the entry of the first prompt and the trace is the
\* program itself
C12_Witness ==
    /\ prog = SequenceBlock(<<Text(a),
                              With(ValueBlock(StrV(w)), [assign |-> "x"]),
                              GetBlock(<<"z">>), Text(b)>>)
    /\ ctl.op = "exit" /\ ctl.raised
    /\ logfile.written /\ Len(logfile.lines) >= 2
    /\ logfile.lines[2] = <<"text", a>>
    /\ logfile.lines = log
    /\ rendered.done /\ rendered.trace = prog

\* call_api is about to send its request (lines 367-384)
ApiRequests == At("call_api", "input") /\ Returned

\* call_python is about to execute the code string (lines 391-397)
CodeExecutes == At("call_python", "code") /\ Returned

\* an Input block whose configuration is malformed (lines 411-413, 419)
Malformed(block) ==
    \/ BadSource(block)
    \/ block.json_content /\ block.assign = NONE

\* the tuple a fault that is data returns: an Error node for the block, the
\* result None and no text, in the scope the operation was given
FaultAsData(val, block, scope) ==
    /\ val.trace.kind = "error"
    /\ val.trace.block.kind = block.kind
    /\ val.result = None
    /\ val.output = <<>>
    /\ val.scope = scope

\* a failing API call, an unsupported Code language and a malformed Input
\* block each return an Error node with None and no text, and the siblings
\* after the Error node are evaluated
FaultsAreData ==
    /\ [][ApiRequests =>
             /\ ctl'.op = "ret"
             /\ \/ FaultAsData(ctl'.val, Top.block, Top.scope)
                \/ ctl'.val.trace.kind = "api" /\ ctl'.val.result # None]_vars
    /\ [][(BodyOf("code") /\ ctl.arg.lan # "python") =>
             ctl'.op = "ret" /\ FaultAsData(ctl'.val, ctl.arg, ctl.scope)]_vars
    /\ [][(Calling("process_input") /\ Malformed(ctl.arg)) =>
             ctl'.op = "ret" /\ FaultAsData(ctl'.val, ctl.arg, ctl.scope)]_vars
    /\ [](\A e \in Externals :
             (/\ prog = SequenceBlock(<<Text(a), e, GetBlock(<<"context">>)>>)
              /\ ctl.op = "exit" /\ ~ctl.raised
              /\ rendered.trace.prompts[2].kind = "error") =>
                 /\ Len(rendered.trace.prompts) = 3
                 /\ rendered.trace.prompts[3].kind = "get"
                 /\ rendered.trace.prompts[3].result = StrV(a)
                 /\ rendered.trace.result = StrV(a \o a))

\* C13 as claimed: a failing API call, a failure while executing an inline
\* Code block, an unsupported Code language and a malformed Input block each
\* yield an Error node with None result and empty output, never an exception,
\* and the siblings and ancestors go on being evaluated.
C13_RecoverableFaults ==
    /\ FaultsAreData
    /\ [][CodeExecutes =>
             /\ ctl'.op = "ret"
             /\ \/ FaultAsData(ctl'.val, Under(1).block, Top.scope)
                \/ ctl'.val.output = PyStr(ctl'.val.result)]_vars

\* the execution of an inline Code block, second prompt of a Sequence, has
\* failed and the failure is leaving the evaluator
C13_Witness ==
    /\ prog = SequenceBlock(<<Text(a),
                              With(CodeBlock("python", <<Text(<<"c">>)>>),
                                   [assign |-> "x"]),
                              GetBlock(<<"context">>)>>)
    /\ log = append_log(append_log(append_log(<<>>, "Prompt", a),
                                   "Prompt", <<"c">>),
                        "Code Input", <<"c">>)
    /\ ctl.op = "raise" /\ ctl.exc = "Exception"
    /\ stack = <<>>

\* the key "context" is present in the scope and its value is a string
ContextIsString(scope) ==
    "context" \in DOMAIN scope /\ IsStr(scope["context"])

\* C14 as claimed: every scope passed to process_block, process_prompts or
\* process_condition (the call-time scope of a Call body among them), and
\* every scope an evaluation step returns to its caller other than the one
\* process_block_body hands to process_block, has the key "context" bound to
\* a string, also in programs whose assign names or Call argument names are
\* "context".
C14_ContextIsString ==
    /\ (ctl.op = "call"
          /\ ctl.fn \in {"process_block", "process_prompts",
                         "process_condition"})
         => ContextIsString(ctl.scope)
    /\ (Returned /\ stack # <<>> /\ ~At("process_block", "body"))
         => ContextIsString(ctl.val.scope)
    /\ (Returned /\ stack = <<>>) => ContextIsString(ctl.val.scope)

\* the body of a closure is about to be evaluated in a call-time scope whose
\* "context" is the integer the Call passed as an argument of that name
C14_Witness ==
    /\ CallBodyStarts
    /\ "context" \in DOMAIN Top.block.args
    /\ Top.block.args["context"] = IntV(5)
    /\ ctl.scope["context"] = IntV(5)
    /\ ContextIsString(Top.scope)

\* process_block has returned to process_defs or, through process_prompt, to
\* process_prompts
ProcessBlockReturned ==
    /\ Returned
    /\ At("process_defs", "for") \/ At("process_prompts", "for")
    /\ ~IsText(ctl.val.trace)

\* C15: whatever the kind of the block and whatever its body did to the
\* context, the scope process_block returns binds "context" to the text the
\* same call returns: the body's output, or the empty text when show_result
\* is false.
C15_ContextEqualsOutput ==
    /\ [][ProcessBlockReturns =>
             /\ ctl'.op = "ret"
             /\ ctl'.val.output = IF Top.block.show_result = FALSE THEN <<>>
                                  ELSE ctl.val.output
             /\ "context" \in DOMAIN ctl'.val.scope
             /\ ctl'.val.scope["context"] = StrV(ctl'.val.output)]_vars
    /\ [](ProcessBlockReturned =>
             ctl.val.scope["context"] = StrV(ctl.val.output))

\* a block that assigned the integer 7 to "context", with show_result
\* false, has returned the empty text and the empty context
C15_Witness ==
    /\ ProcessBlockReturned
    /\ ctl.val.trace.assign = "context"
    /\ ctl.val.trace.show_result = FALSE
    /\ ctl.val.result = IntV(7)
    /\ ctl.val.output = <<>>
    /\ ctl.val.scope["context"] = StrV(<<>>)
    /\ Top.scope["context"] # StrV(<<>>)

\* def number Top.i of the block Under(1).block is about to be evaluated
DefStarts ==
    /\ Calling("process_block") /\ At("process_defs", "for")
    /\ Len(stack) >= 2 /\ Under(1).fn = "process_block"

\* the body of a block with defs is about to be evaluated
BodyStartsAfterDefs ==
    /\ Calling("process_block_body") /\ At("process_block", "body")
    /\ Len(Top.block.defs) > 0

\* C16: the defs of a node are evaluated in list order before its body; the
\* first def starts from the scope the node was entered with, every later def
\* from the bindings and the context (its returned text) the def before it
\* left; the body starts from the scope of the last def, so its context is the
\* last def's returned text; the trace node's defs field holds one trace per
\* def, in order.
C16_DefsProtocol ==
    /\ [][(Calling("process_block") /\ Len(ctl.arg.defs) > 0) =>
             /\ ctl'.op = "call" /\ ctl'.fn = "process_defs"
             /\ ctl'.arg = ctl.arg.defs /\ ctl'.scope = ctl.scope]_vars
    /\ [](DefStarts =>
             /\ Top.defs = Under(1).block.defs
             /\ ctl.arg = Top.defs[Top.i]
             /\ Len(Top.defs_trace) = Top.i - 1
             /\ Top.i = 1 => ctl.scope = Under(1).scope0
             /\ Top.i > 1 =>
                   ctl.scope["context"]
                     = StrV(Contributed(Top.defs_trace[Top.i - 1]))
             /\ \A j \in 1..(Top.i - 1) :
                   /\ Top.defs_trace[j].kind \in {Top.defs[j].kind, "error"}
                   /\ Top.defs[j].assign # NONE =>
                         Top.defs[j].assign \in DOMAIN ctl.scope)
    /\ [][(At("process_defs", "for") /\ Returned) =>
             /\ ctl'.op = "run"
             /\ Top'.scope = ctl.val.scope
             /\ Top'.defs_trace = Append(Top.defs_trace, ctl.val.trace)]_vars
    /\ [](BodyStartsAfterDefs =>
             LET n == Len(Top.block.defs)
             IN  /\ ctl.arg = Top.block
                 /\ Len(Top.defs_trace) = n
                 /\ ctl.scope["context"] = StrV(Contributed(Top.defs_trace[n]))
                 /\ \A j \in 1..n :
                       /\ Top.defs_trace[j].kind
                            \in {Top.block.defs[j].kind, "error"}
                       /\ Top.block.defs[j].assign # NONE =>
                             Top.block.defs[j].assign \in DOMAIN ctl.scope)
    /\ [][ProcessBlockReturns =>
             /\ ctl'.val.trace.defs = Top.defs_trace
             /\ Len(ctl'.val.trace.defs) = Len(Top.block.defs)]_vars

\* the body of a Sequence with three defs, entered with the empty scope,
\* starts with the y and x the first two defs bound and with the text of
\* the third def as its context
C16_Witness ==
    /\ BodyStartsAfterDefs
    /\ Top.block.defs = SomeDefs
    /\ Top.scope0 = empty_scope
    /\ ctl.scope["y"] = StrV(b) /\ ctl.scope["x"] = StrV(w)
    /\ ctl.scope["context"] = StrV(a)
    /\ Len(Top.defs_trace) = 3
    /\ Top.defs_trace[1].result = StrV(b)

\* the condition of an If block has returned to the body of the If
IfConditionReturned == At("process_block_body", "if_condition") /\ Returned

\* the prompts of an If block are about to be evaluated
IfBranchStarts ==
    Calling("process_prompts") /\ At("process_block_body", "if_prompts")

\* C17: an If evaluates its condition first, in its entry scope; when the
\* condition is true the prompts are evaluated from that same entry scope
\* (nothing the condition bound or wrote is visible) and the If's result and
\* output are those of the prompts; when it is false the result is None, the
\* output is empty, no prompt is evaluated and the returned scope is the entry
\* scope.
C17_IfSemantics ==
    /\ [][BodyOf("if") =>
             /\ ctl'.op = "call" /\ ctl'.fn = "process_condition"
             /\ ctl'.arg = ctl.arg.condition /\ ctl'.scope = ctl.scope
             /\ Top'.scope_init = ctl.scope /\ log' = log]_vars
    /\ [][IfConditionReturned =>
             IF ctl.val.result
             THEN /\ IfBranchStarts'
                  /\ ctl'.scope = Top.scope_init
                  /\ ctl'.arg = Top.block.prompts
             ELSE /\ ctl'.op = "ret"
                  /\ ctl'.val.result = None
                  /\ ctl'.val.output = <<>>
                  /\ ctl'.val.scope = Top.scope_init
                  /\ ctl'.val.trace.prompts = Top.block.prompts
                  /\ log' = log]_vars
    /\ [](IfBranchStarts =>
             /\ Top.cond_trace.result = TRUE
             /\ ctl.scope = Top.scope_init)
    /\ [][(At("process_block_body", "if_prompts") /\ Returned) =>
             /\ ctl'.op = "ret"
             /\ ctl'.val.result = ctl.val.result
             /\ ctl'.val.output = ctl.val.output
             /\ ctl'.val.trace.prompts = ctl.val.trace]_vars

\* a condition whose sub-prompt bound x and left "w" in the context was
\* true, and the prompts of the If start without x and with the context of entry
C17_Witness ==
    /\ IfBranchStarts
    /\ Top.block.condition = CondBinds
    /\ Len(Top.block.prompts) > 0
    /\ Top.cond_trace.ends_with.arg0.result = StrV(w)
    /\ "x" \notin DOMAIN ctl.scope
    /\ ctl.scope["context"] = StrV(<<>>)

\* C18: the trace node process_block returns for a block is the trace of its
\* body with the defs field set to the defs traces and the result field set to
\* the text the body computed, before show_result empties the returned text;
\* this holds for blocks with show_result false and for Error nodes as well.
C18_TraceResultField ==
    /\ [][ProcessBlockReturns =>
             /\ ctl'.val.trace.result = StrV(ctl.val.output)
             /\ ctl'.val.trace.defs = Top.defs_trace
             /\ ctl'.val.trace.kind = ctl.val.trace.kind
             /\ \A k \in DOMAIN ctl.val.trace \ {"result", "defs"} :
                   ctl'.val.trace[k] = ctl.val.trace[k]
             /\ Top.block.show_result = FALSE => ctl'.val.output = <<>>
             /\ ctl.val.trace.kind = "error" =>
                   ctl'.val.trace.result = StrV(<<>>)]_vars
    /\ [](ProcessBlockReturned =>
             /\ IsStr(ctl.val.trace.result)
             /\ ctl.val.trace.show_result # FALSE =>
                   ctl.val.trace.result.v = ctl.val.output
             /\ ctl.val.trace.kind = "error" =>
                   Len(ctl.val.trace.defs) = Len(ctl.val.trace.block.defs))

\* a def with show_result false that computed "w" has returned: its trace
\* holds "w" and the text it returned is empty
C18_Witness ==
    /\ Returned /\ At("process_defs", "for")
    /\ ctl.val.trace.show_result = FALSE
    /\ ctl.val.trace.assign = "x"
    /\ ctl.val.trace.result = StrV(w)
    /\ ctl.val.output = <<>>
    /\ ctl.val.trace.defs = <<>>

\* an Error node has taken the place of a failed Model block with an assign
ErrorNodeReturned ==
    /\ ProcessBlockReturned
    /\ ctl.val.trace.kind = "error"
    /\ ctl.val.trace.block.assign = "x"
    /\ ctl.val.trace.result = StrV(<<>>)

\* a prompt of a prompt list is about to be evaluated
PromptStarts == Calling("process_prompt") /\ At("process_prompts", "for")

\* the trace is that of an evaluated Function block
IsFunctionTrace(trace) == ~IsText(trace) /\ trace.kind = "function"

\* the closure a Function block made, put together from the block and from
\* the captured scope its trace shows
ClosureMade(block, trace) ==
    [t |-> "closure", block |-> block, scope |-> trace.scope]

\* the name of the Function block is bound to its closure in the scope
BindsClosure(scope, block, trace) ==
    /\ block.function \in DOMAIN scope
    /\ scope[block.function] = ClosureMade(block, trace)

\* none of the blocks from..to of the list can bind the name
NotRebound(name, blocks, from, to) ==
    \A k \in from..to : name \notin Binders(blocks[k])

\* C19 as claimed: after a Function block named f is evaluated as a prompt
\* or as a def, every later sibling, and the body after a def, is handed a
\* scope that binds f to the closure; the Function block contributes no text.
C19_AnyFunctionVisible ==
    /\ PromptStarts =>
          \A j \in 1..(Top.i - 1) :
              IsFunctionTrace(Top.trace[j]) =>
                  /\ BindsClosure(ctl.scope, Top.prompts[j], Top.trace[j])
                  /\ Contributed(Top.trace[j]) = <<>>
    /\ DefStarts =>
          \A j \in 1..(Top.i - 1) :
              IsFunctionTrace(Top.defs_trace[j]) =>
                  BindsClosure(ctl.scope, Top.defs[j], Top.defs_trace[j])
    /\ BodyStartsAfterDefs =>
          \A j \in 1..Len(Top.block.defs) :
              IsFunctionTrace(Top.defs_trace[j]) =>
                  BindsClosure(ctl.scope, Top.block.defs[j], Top.defs_trace[j])

\* C19 amended: after a Function block named f, f other than "context", is
\* evaluated as a prompt or as a def, every later sibling up to one that binds
\* f again, and the body after a def, is handed a scope that binds f to the
\* closure, so a Call to f there resolves; the Function block contributes no
\* text.
C19_FunctionVisible ==
    /\ PromptStarts =>
          \A j \in 1..(Top.i - 1) :
              IsFunctionTrace(Top.trace[j]) =>
                  /\ Contributed(Top.trace[j]) = <<>>
                  /\ (/\ Top.prompts[j].function # "context"
                      /\ NotRebound(Top.prompts[j].function, Top.prompts,
                                    j + 1, Top.i - 1)) =>
                        /\ BindsClosure(ctl.scope, Top.prompts[j], Top.trace[j])
                        /\ get_var(<<Top.prompts[j].function>>, ctl.scope)
                             = [ok |-> TRUE,
                                v |-> ClosureMade(Top.prompts[j], Top.trace[j])]
    /\ DefStarts =>
          \A j \in 1..(Top.i - 1) :
              (/\ IsFunctionTrace(Top.defs_trace[j])
               /\ Top.defs[j].function # "context"
               /\ NotRebound(Top.defs[j].function, Top.defs, j + 1, Top.i - 1))
                  => BindsClosure(ctl.scope, Top.defs[j], Top.defs_trace[j])
    /\ BodyStartsAfterDefs =>
          \A j \in 1..Len(Top.block.defs) :
              (/\ IsFunctionTrace(Top.defs_trace[j])
               /\ Top.block.defs[j].function # "context"
               /\ NotRebound(Top.block.defs[j].function, Top.block.defs,
                             j + 1, Len(Top.block.defs)))
                  => BindsClosure(ctl.scope, Top.block.defs[j],
                                  Top.defs_trace[j])

\* the third prompt of a loop body, a Call to f, is about to be evaluated in
\* the second iteration, after the Function block f without assign and a text
C19_Witness ==
    /\ PromptStarts
    /\ Under(1).fn = "process_block_body" /\ Under(1).pc = "repeats"
    /\ Len(Under(1).iterations_trace) = 1
    /\ Top.i = 3
    /\ IsFunctionTrace(Top.trace[1])
    /\ Top.prompts[1].assign = NONE
    /\ ctl.arg.kind = "call" /\ ctl.arg.call = <<"f">>
    /\ ctl.scope["f"] = ClosureMade(Top.prompts[1], Top.trace[1])
    /\ ctl.scope["context"] = StrV(a \o b \o a)

\* the body of a Call block starts after a def that is a Function block
FunctionDefVisible ==
    /\ BodyStartsAfterDefs
    /\ IsFunctionTrace(Top.defs_trace[1])
    /\ BindsClosure(ctl.scope, Top.block.defs[1], Top.defs_trace[1])

\* the body of a Model, Api or Code block without defs has returned to
\* process_block, which still holds the scope the block was entered with
SubPromptBodyReturned ==
    /\ ProcessBlockReturns
    /\ Top.block.kind \in {"model", "api", "code"}
    /\ Len(Top.block.defs) = 0

\* C20: the scope the body of a Model, Api or Code block returns is the scope
\* the body was entered with: what the input prompt or the code prompts bound
\* or wrote to the context is dropped, on success and when the body returns
\* an Error node.
C20_SubPromptsLeaveScope ==
    /\ SubPromptBodyReturned => ctl.val.scope = Top.scope0
    /\ (Returned /\ At("process_block_body", "code")) =>
          ctl.val.scope = Top.scope_init

\* an Api block whose input prompt bound x has failed: the Error node comes
\* back with the scope of entry, which has no x
C20_Witness ==
    /\ SubPromptBodyReturned
    /\ Top.block.kind = "api"
    /\ ctl.val.trace.kind = "error"
    /\ ~IsText(ctl.val.trace.block.input)
    /\ ctl.val.trace.block.input.assign = "x"
    /\ ctl.val.trace.block.input.result = StrV(w)
    /\ "x" \notin DOMAIN ctl.val.scope
    /\ ctl.val.scope["context"] = StrV(a)

\* a Model block and a Code block whose sub-prompts bound x have succeeded
SubPromptSucceeded ==
    /\ SubPromptBodyReturned
    /\ Top.block.kind \in {"model", "code"}
    /\ ctl.val.trace.kind # "error"
    /\ ctl.val.result # None
    /\ "x" \notin DOMAIN ctl.val.scope
    /\ \/ /\ Top.block.kind = "model"
          /\ ctl.val.trace.input \notin {NoPrompt} \cup {Text(<<"q">>), Text(<<>>)}
          /\ ctl.val.trace.input.assign = "x"
       \/ Top.block.kind = "code" /\ Len(ctl.val.trace.code) = 2

====
